---- MODULE Spec2Model ----
(***************************************************************************)
(* A state-machine model of examples/tensor_flow/code/ptb_word_lm.py: the  *)
(* command line entry point (main), training (train, run_epoch) and        *)
(* sampling (generate), over a file system that outlives each invocation.  *)
(*                                                                         *)
(* Abstractions                                                            *)
(*  - Real numbers are exact rationals <<numerator, denominator>>.         *)
(*  - exp(x) and b ** e are kept symbolic (both are injective for the      *)
(*    values the program uses), so a perplexity is represented by its      *)
(*    exponent and a learning rate by learning_rate, lr_decay and the      *)
(*    exponent of lr_decay.                                                *)
(*  - The model parameters are the shape of the variables together with    *)
(*    the number of optimizer updates applied to them since                *)
(*    initialisation.                                                      *)
(*  - The recurrent state is the sequence of inputs the cell has consumed  *)
(*    since the zero state (the free model of a deterministic cell).       *)
(*  - The values a session step computes from the network (the summed     *)
(*    loss, the arg-max word, the sampled word) are nondeterministic.      *)
(***************************************************************************)
EXTENDS Integers, Sequences, FiniteSets, TLC

VARIABLES
  pc,          \* position of the running invocation
  FLAGS,       \* command line flags of the running invocation
  fs,          \* file system: path -> content, DOMAIN fs = existing files
  err,         \* exception that ended the invocation, or None
  config,      \* train/generate: config
  eval_config, \* train: eval_config
  raw_data,    \* train: what reader.ptb_raw_data returned
  params,      \* the session's model variables
  lr,          \* the training model's learning-rate variable
  i,           \* train: epoch loop index
  ep,          \* frame of the run_epoch call in progress
  gen,         \* frame of generate (and the vocabularies main loaded)
  trace,       \* history: the calls and externally visible steps of the invocation
  trained      \* history: the variables as the last training pass left them

vars == <<pc, FLAGS, fs, err, config, eval_config, raw_data,
          params, lr, i, ep, gen, trace, trained>>

-----------------------------------------------------------------------------
(* Bounds of the model                                                     *)

\* the corpus under FLAGS.data_path has one of the size classes 0..MaxDataSize
MaxDataSize == 2
\* a session step's summed loss is drawn from 0..MaxLossSum
MaxLossSum == 2
\* distinct --model_path_prefix directories
NumPrefixes == 1
\* at most this many steps of one generated sentence sample <eos>
MaxEos == 1

-----------------------------------------------------------------------------
(* Python values and arithmetic                                            *)

None == "<None>"
PyFalse == "<False>"

\* Python truthiness of a flag value
Truthy(v) == v \notin {None, PyFalse, ""}

Max(a, b) == IF a >= b THEN a ELSE b

RECURSIVE Gcd(_, _)
Gcd(a, b) == IF b = 0 THEN a ELSE Gcd(b, a % b)

\* the rational n/d in lowest terms, d > 0
Rat(n, d) == LET g == Gcd(IF n < 0 THEN -n ELSE n, d)
             IN  <<n \div g, d \div g>>

RatAdd(a, b) == Rat(a[1] * b[2] + b[1] * a[2], a[2] * b[2])

\* a / k for an integer k > 0 (true division)
RatDivInt(a, k) == Rat(a[1], a[2] * k)

\* str() of an integer
str(n) == ToString(n)

\* os.path.join
path_join(a, b) == a \o "/" \o b

-----------------------------------------------------------------------------
(* Configurations                                                          *)

SmallConfig ==
  [init_scale |-> Rat(1, 10), learning_rate |-> Rat(1, 1), max_grad_norm |-> 5,
   num_layers |-> 2, num_steps |-> 20, hidden_size |-> 200, max_epoch |-> 4,
   max_max_epoch |-> 13, keep_prob |-> Rat(1, 1), lr_decay |-> Rat(1, 2),
   batch_size |-> 20, vocab_size |-> 10002]

MediumConfig ==
  [init_scale |-> Rat(5, 100), learning_rate |-> Rat(1, 1), max_grad_norm |-> 5,
   num_layers |-> 2, num_steps |-> 35, hidden_size |-> 650, max_epoch |-> 6,
   max_max_epoch |-> 39, keep_prob |-> Rat(1, 2), lr_decay |-> Rat(8, 10),
   batch_size |-> 20, vocab_size |-> 10002]

LargeConfig ==
  [init_scale |-> Rat(4, 100), learning_rate |-> Rat(1, 1), max_grad_norm |-> 10,
   num_layers |-> 2, num_steps |-> 35, hidden_size |-> 1500, max_epoch |-> 14,
   max_max_epoch |-> 55, keep_prob |-> Rat(35, 100), lr_decay |-> Rat(100, 115),
   batch_size |-> 20, vocab_size |-> 10002]

TestConfig ==
  [init_scale |-> Rat(1, 10), learning_rate |-> Rat(1, 1), max_grad_norm |-> 1,
   num_layers |-> 1, num_steps |-> 2, hidden_size |-> 2, max_epoch |-> 1,
   max_max_epoch |-> 1, keep_prob |-> Rat(1, 1), lr_decay |-> Rat(1, 2),
   batch_size |-> 20, vocab_size |-> 10002]

\* a get_config that falls back to the small configuration
get_config_default(model) ==
  IF model = "medium" THEN [ok |-> TRUE, value |-> MediumConfig]
  ELSE IF model = "large" THEN [ok |-> TRUE, value |-> LargeConfig]
  ELSE IF model = "test" THEN [ok |-> TRUE, value |-> TestConfig]
  ELSE [ok |-> TRUE, value |-> SmallConfig]

\* get_config: the configuration FLAGS.model names, or the exception raised
get_config(model) ==
  IF model = "small" THEN [ok |-> TRUE, value |-> SmallConfig]
  ELSE IF model = "medium" THEN [ok |-> TRUE, value |-> MediumConfig]
  ELSE IF model = "large" THEN [ok |-> TRUE, value |-> LargeConfig]
  ELSE IF model = "test" THEN [ok |-> TRUE, value |-> TestConfig]
  ELSE [ok |-> FALSE, value |-> "ValueError: Invalid model"]

-----------------------------------------------------------------------------
(* The reader module (code/reader.py)                                      *)

\* the vocabulary, most frequent word first; a word's id is its rank
VocabWords == <<"the", "<unk>", "<eos>", "<bos>">>

\* reader.ptb_raw_data: the three id lists (by length) and the vocabulary
ptb_raw_data(d) ==
  [train_data |-> 4020 * d, valid_data |-> 420 * d, test_data |-> 2 * d,
   vocab |-> Len(VocabWords),
   word_to_id |-> [w \in {VocabWords[k] : k \in 1..Len(VocabWords)} |->
                     (CHOOSE k \in 1..Len(VocabWords) : VocabWords[k] = w) - 1],
   id_to_word |-> [n \in 0..(Len(VocabWords) - 1) |-> VocabWords[n + 1]]]

\* reader.ptb_iterator: the number of (x, y) batches it yields
ptb_iterator_len(data_len, batch_size, num_steps) ==
  Max(((data_len \div batch_size) - 1) \div num_steps, 0)

-----------------------------------------------------------------------------
(* Files                                                                   *)

\* open(path, "w") followed by a dump of content
WriteFile(f, path, content) ==
  [p \in (DOMAIN f) \cup {path} |-> IF p = path THEN content ELSE f[p]]

\* json.dump of a dict with integer keys: the object's keys are strings
json_dump_int_keys(d) ==
  [s \in {str(k) : k \in DOMAIN d} |-> d[CHOOSE k \in DOMAIN d : str(k) = s]]

Prefixes == {"ckpt" \o ToString(k) : k \in 1..NumPrefixes}

-----------------------------------------------------------------------------
(* Initial state                                                           *)

NoConfig == [ok |-> FALSE]

NoFrame == [active |-> FALSE]

NoParams == [initialized |-> FALSE]

FlagSpace ==
  [model : {"small", "medium", "large", "test", "huge"},
   data_path : {None, "simple-examples/data/"},
   generate : {PyFalse, "True"},
   model_path_prefix : {None} \cup Prefixes]

NoFlags ==
  [model |-> "small", data_path |-> None, generate |-> PyFalse,
   model_path_prefix |-> None]

Init ==
  /\ pc = "idle"
  /\ FLAGS = NoFlags
  /\ fs = <<>>
  /\ err = None
  /\ config = NoConfig
  /\ eval_config = NoConfig
  /\ raw_data = NoFrame
  /\ params = NoParams
  /\ lr = NoParams
  /\ i = 0
  /\ ep = NoFrame
  /\ gen = NoFrame
  /\ trace = <<>>
  /\ trained = NoParams

\* an uncaught exception ends the invocation
Raise(e) == pc' = "failed" /\ err' = e

-----------------------------------------------------------------------------
(* The entry point                                                         *)

\* tf.app.run(): a new process parses the flags and calls main
Start ==
  /\ pc = "idle"
  /\ \E f \in FlagSpace : FLAGS' = f
  /\ pc' = "main"
  /\ UNCHANGED <<fs, err, config, eval_config, raw_data, params, lr, i, ep,
                 gen, trace, trained>>

\* the process ends, by returning from main or by an uncaught exception:
\* only the files it wrote remain
Exit ==
  /\ pc \in {"done", "failed"}
  /\ pc' = "idle"
  /\ FLAGS' = NoFlags
  /\ err' = None
  /\ config' = NoConfig
  /\ eval_config' = NoConfig
  /\ raw_data' = NoFrame
  /\ params' = NoParams
  /\ lr' = NoParams
  /\ i' = 0
  /\ ep' = NoFrame
  /\ gen' = NoFrame
  /\ trace' = <<>>
  /\ trained' = NoParams
  /\ UNCHANGED fs

\* a main whose first test joins the two flags with "or"
main_branch_or(f) ==
  IF ~Truthy(f.data_path) \/ ~Truthy(f.generate) THEN "raise"
  ELSE "generate"

\* main, lines 312-317: which of the three branches the flags select
main_branch(f) ==
  IF ~Truthy(f.data_path) /\ ~Truthy(f.generate) THEN "raise"
  ELSE IF ~Truthy(f.generate) THEN "train"
  ELSE "generate"

Main ==
  /\ pc = "main"
  /\ IF main_branch(FLAGS) = "raise"
     THEN /\ Raise("ValueError: Must set --data_path to PTB data directory")
          /\ UNCHANGED trace
     ELSE IF main_branch(FLAGS) = "train"
     THEN /\ pc' = "train"
          /\ trace' = Append(trace, "call train")
          /\ UNCHANGED err
     ELSE /\ pc' = "load_vocab"
          /\ UNCHANGED <<err, trace>>
  /\ UNCHANGED <<FLAGS, fs, config, eval_config, raw_data, params,
                 lr, i, ep, gen, trained>>

\* main, lines 318-322: open and load the two vocabulary files
LoadVocab ==
  /\ pc = "load_vocab"
  /\ IF FLAGS.model_path_prefix = None
     THEN /\ Raise("TypeError: join")
          /\ UNCHANGED <<gen, trace>>
     ELSE LET w2i == path_join(FLAGS.model_path_prefix, "word_to_id.json")
              i2w == path_join(FLAGS.model_path_prefix, "id_to_word.json")
          IN  IF w2i \notin DOMAIN fs \/ i2w \notin DOMAIN fs
              THEN /\ Raise("IOError: No such file")
                   /\ UNCHANGED <<gen, trace>>
              ELSE /\ gen' = [active |-> FALSE, word_to_id |-> fs[w2i],
                              id_to_word |-> fs[i2w]]
                   /\ trace' = trace \o <<"load word_to_id.json",
                                           "load id_to_word.json",
                                           "call generate">>
                   /\ pc' = "generate"
                   /\ UNCHANGED err
  /\ UNCHANGED <<FLAGS, fs, config, eval_config, raw_data, params,
                 lr, i, ep, trained>>

-----------------------------------------------------------------------------
(* train                                                                   *)

\* PTBModel.__init__ then initialize_all_variables: freshly initialised
\* variables of the shape the configuration fixes
initial_params(c) ==
  [initialized |-> TRUE, hidden_size |-> c.hidden_size,
   num_layers |-> c.num_layers, vocab_size |-> c.vocab_size, updates |-> 0]

\* run_epoch, lines 265-271: the frame at entry
run_epoch_enter(caller, m, data_len, eval_op, verbose) ==
  [active |-> TRUE, caller |-> caller, batch_size |-> m.batch_size,
   num_steps |-> m.num_steps, data_len |-> data_len, eval_op |-> eval_op,
   verbose |-> verbose,
   epoch_size |-> ((data_len \div m.batch_size) - 1) \div m.num_steps,
   costs |-> Rat(0, 1), iters |-> 0, state |-> <<>>, step |-> 0,
   final_chosen_word |-> "", processed |-> <<>>]

\* train, lines 326-329
TrainConfig ==
  /\ pc = "train"
  /\ LET c == get_config(FLAGS.model)
     IN  IF ~c.ok
         THEN /\ Raise(c.value)
              /\ UNCHANGED <<config, eval_config>>
         ELSE /\ config' = c.value
              /\ eval_config' = [c.value EXCEPT !.batch_size = 1, !.num_steps = 1]
              /\ pc' = "train_read"
              /\ UNCHANGED err
  /\ UNCHANGED <<FLAGS, fs, raw_data, params, lr, i, ep, gen, trace, trained>>

\* train, lines 331-338: read the corpus, write the two vocabulary files
TrainRead ==
  /\ pc = "train_read"
  /\ \E d \in 0..MaxDataSize : raw_data' = ptb_raw_data(d)
  /\ IF FLAGS.model_path_prefix = None
     THEN /\ Raise("TypeError: join")
          /\ UNCHANGED <<fs, trace>>
     ELSE /\ fs' = WriteFile(
                     WriteFile(fs,
                       path_join(FLAGS.model_path_prefix, "word_to_id.json"),
                       raw_data'.word_to_id),
                     path_join(FLAGS.model_path_prefix, "id_to_word.json"),
                     json_dump_int_keys(raw_data'.id_to_word))
          /\ trace' = trace \o <<"write word_to_id.json", "write id_to_word.json">>
          /\ pc' = "train_build"
          /\ UNCHANGED err
  /\ UNCHANGED <<FLAGS, config, eval_config, params, lr, i, ep, gen, trained>>

\* train, lines 340-349: build m, mvalid, mtest and initialise the variables
TrainBuild ==
  /\ pc = "train_build"
  /\ params' = initial_params(config)
  /\ lr' = [learning_rate |-> Rat(0, 1), lr_decay |-> Rat(1, 1), exponent |-> 0]
  /\ i' = 0
  /\ pc' = "epoch_loop"
  /\ UNCHANGED <<FLAGS, fs, err, config, eval_config, raw_data, ep,
                 gen, trace, trained>>

\* an epoch loop that stops one epoch short
epoch_in_range_short(k, c) == k < c.max_max_epoch - 1

\* train, line 351: the loop runs while i is in range(config.max_max_epoch)
epoch_in_range(k, c) == k < c.max_max_epoch

\* train, line 352: the exponent of lr_decay in epoch index k
lr_decay_exponent(k, c) == Max(k - c.max_epoch, 0)

\* train, lines 351-357: assign the learning rate, start the training pass
EpochBegin ==
  /\ pc = "epoch_loop"
  /\ epoch_in_range(i, config)
  /\ lr' = [learning_rate |-> config.learning_rate, lr_decay |-> config.lr_decay,
            exponent |-> lr_decay_exponent(i, config)]
  /\ trace' = Append(trace, "assign_lr")
  /\ ep' = run_epoch_enter("train", config, raw_data.train_data, "train_op", TRUE)
  /\ pc' = "run_epoch_loop"
  /\ UNCHANGED <<FLAGS, fs, err, config, eval_config, raw_data,
                 params, i, gen, trained>>

\* train, lines 363-365: after the last epoch, start the test pass
EpochsDone ==
  /\ pc = "epoch_loop"
  /\ ~epoch_in_range(i, config)
  /\ ep' = run_epoch_enter("test", eval_config, raw_data.test_data, "no_op", FALSE)
  /\ pc' = "run_epoch_loop"
  /\ UNCHANGED <<FLAGS, fs, err, config, eval_config, raw_data,
                 params, lr, i, gen, trace, trained>>

\* train, line 361: m.saver.save writes the session's variables
saved_variables(p) == p

Save ==
  /\ pc = "save"
  /\ fs' = WriteFile(fs, path_join(FLAGS.model_path_prefix, "ptb.ckpt"),
                     saved_variables(params))
  /\ trace' = Append(trace, "save")
  /\ i' = i + 1
  /\ pc' = "epoch_loop"
  /\ UNCHANGED <<FLAGS, err, config, eval_config, raw_data, params,
                 lr, ep, gen, trained>>

-----------------------------------------------------------------------------
(* run_epoch                                                               *)

\* a cost that is not divided by the batch size
model_cost_unscaled(loss_sum, batch_size) == Rat(loss_sum, 1)

\* PTBModel.__init__, line 139: cost = reduce_sum(loss) / batch_size
model_cost(loss_sum, batch_size) == Rat(loss_sum, batch_size)

\* an eval_op that always trains
run_eval_op_always(p, eval_op) == [p EXCEPT !.updates = @ + 1]

\* what running eval_op does to the variables: train_op applies one
\* gradient-descent update, tf.no_op() nothing
run_eval_op(p, eval_op) ==
  IF eval_op = "train_op" THEN [p EXCEPT !.updates = @ + 1] ELSE p

\* the recurrent cell: the state after consuming input x
cell(state, x) == Append(state, x)

\* ids np.argmax / np.random.choice may return
WordIds == 0..(Len(VocabWords) - 1)

\* run_epoch, lines 272-293: one iteration of the loop over the batches
RunEpochStep ==
  /\ pc = "run_epoch_loop"
  /\ ep.step < ptb_iterator_len(ep.data_len, ep.batch_size, ep.num_steps)
  /\ \E loss_sum \in 0..MaxLossSum, chosen_word \in WordIds :
       LET after == [ep EXCEPT
                       !.costs = RatAdd(@, model_cost(loss_sum, ep.batch_size)),
                       !.iters = @ + ep.num_steps,
                       !.state = cell(@, ep.step),
                       !.processed = Append(@, loss_sum)]
       IN  /\ params' = run_eval_op(params, ep.eval_op)
           /\ IF ep.verbose /\ ep.epoch_size \div 10 = 0
              THEN /\ ep' = after
                   /\ Raise("ZeroDivisionError: integer division or modulo by zero")
              ELSE /\ ep' = [after EXCEPT !.final_chosen_word = chosen_word]
                   /\ pc' = "run_epoch_return"
                   /\ UNCHANGED err
  /\ UNCHANGED <<FLAGS, fs, config, eval_config, raw_data, lr, i,
                 gen, trace, trained>>

\* run_epoch, line 272: the iterator yields nothing (more)
RunEpochExhausted ==
  /\ pc = "run_epoch_loop"
  /\ ep.step >= ptb_iterator_len(ep.data_len, ep.batch_size, ep.num_steps)
  /\ pc' = "run_epoch_return"
  /\ UNCHANGED <<FLAGS, fs, err, config, eval_config, raw_data,
                 params, lr, i, ep, gen, trace, trained>>

\* run_epoch, line 295: the exponent of the perplexity returned
perplexity_exponent(costs, iters) == RatDivInt(costs, iters)

\* run_epoch, line 295, and the caller's next statements up to its next call
RunEpochReturn ==
  /\ pc = "run_epoch_return"
  /\ IF ep.iters = 0
     THEN /\ Raise("ZeroDivisionError: float division by zero")
          /\ UNCHANGED <<ep, trace, trained>>
     ELSE /\ trace' = Append(trace, ep.caller \o "_pass")
          /\ UNCHANGED err
          /\ IF ep.caller = "train"
             THEN /\ ep' = run_epoch_enter("valid", config, raw_data.valid_data,
                                           "no_op", FALSE)
                  /\ pc' = "run_epoch_loop"
                  /\ trained' = params
             ELSE /\ ep' = NoFrame
                  /\ pc' = IF ep.caller = "valid" THEN "save" ELSE "done"
                  /\ UNCHANGED trained
  /\ UNCHANGED <<FLAGS, fs, config, eval_config, raw_data, params,
                 lr, i, gen>>

-----------------------------------------------------------------------------
(* generate                                                                *)

\* generate, line 396: the number of words of a sentence
SentenceLength == 30

\* saver.restore: the checkpoint's variables must have the shapes of the
\* graph's variables
restorable(ckpt, c) ==
  /\ ckpt.hidden_size = c.hidden_size
  /\ ckpt.num_layers = c.num_layers
  /\ ckpt.vocab_size = c.vocab_size

\* generate, lines 370-372
GenConfig ==
  /\ pc = "generate"
  /\ LET c == get_config(FLAGS.model)
     IN  IF ~c.ok
         THEN /\ Raise(c.value)
              /\ UNCHANGED config
         ELSE /\ config' = [c.value EXCEPT !.num_steps = 1, !.batch_size = 1]
              /\ pc' = "gen_restore"
              /\ UNCHANGED err
  /\ UNCHANGED <<FLAGS, fs, eval_config, raw_data, params, lr, i, ep,
                 gen, trace, trained>>

\* generate, lines 373-380: build the model, open and restore the checkpoint
GenRestore ==
  /\ pc = "gen_restore"
  /\ LET ckpt == path_join(FLAGS.model_path_prefix, "ptb.ckpt")
     IN  IF ckpt \notin DOMAIN fs
         THEN /\ Raise("IOError: No such file")
              /\ UNCHANGED <<params, trace>>
         ELSE IF ~restorable(fs[ckpt], config)
         THEN /\ Raise("InvalidArgumentError: shape mismatch")
              /\ UNCHANGED params
              /\ trace' = Append(trace, "open ptb.ckpt")
         ELSE /\ params' = fs[ckpt]
              /\ trace' = trace \o <<"open ptb.ckpt", "restore">>
              /\ pc' = "gen_prime"
              /\ UNCHANGED err
  /\ UNCHANGED <<FLAGS, fs, config, eval_config, raw_data, lr, i, ep,
                 gen, trained>>

\* generate, lines 382-394: the priming session step, then <bos>
GenPrime ==
  /\ pc = "gen_prime"
  /\ IF "<bos>" \notin DOMAIN gen.word_to_id
     THEN /\ Raise("KeyError: <bos>")
          /\ UNCHANGED gen
     ELSE /\ gen' = [active |-> TRUE, word_to_id |-> gen.word_to_id,
                     id_to_word |-> gen.id_to_word,
                     final_state |-> cell(<<>>, 0),
                     next_word |-> gen.word_to_id["<bos>"],
                     sentence |-> <<>>, i |-> 0,
                     feeds |-> <<[input |-> 0, initial_state |-> <<>>]>>,
                     sampled |-> <<>>]
          /\ pc' = "gen_loop"
          /\ UNCHANGED err
  /\ UNCHANGED <<FLAGS, fs, config, eval_config, raw_data, params,
                 lr, i, ep, trace, trained>>

\* a step that restarts from the zero state
step_initial_state_zero(g) == <<>>

\* generate, line 410: the initial state a step of the loop feeds
step_initial_state(g) == g.final_state

\* generate, line 408: the input word a step of the loop feeds
step_input(g) == g.next_word

\* generate, line 396: the loop runs while i is in range(30)
sentence_in_range(g) == g.i < SentenceLength

EosId == ptb_raw_data(0).word_to_id["<eos>"]

BosId == ptb_raw_data(0).word_to_id["<bos>"]

EosCount(ids) == Cardinality({k \in 1..Len(ids) : ids[k] = EosId})

\* the ids np.random.choice may draw at this step
Samples(g) ==
  {ptb_raw_data(0).word_to_id["the"]}
    \cup (IF EosCount(g.sampled) < MaxEos THEN {EosId} ELSE {})

\* generate, lines 396-422: one iteration of the sampling loop
GenStep ==
  /\ pc = "gen_loop"
  /\ sentence_in_range(gen)
  /\ \E w \in Samples(gen) :
       LET fed == [input |-> step_input(gen),
                   initial_state |-> step_initial_state(gen)]
           ran == [gen EXCEPT
                     !.final_state = cell(fed.initial_state, fed.input),
                     !.feeds = Append(@, fed),
                     !.next_word = w,
                     !.sampled = Append(@, w)]
       IN  IF str(w) \notin DOMAIN gen.id_to_word
           THEN /\ Raise("KeyError")
                /\ gen' = ran
           ELSE /\ gen' = [ran EXCEPT
                            !.sentence = Append(@, gen.id_to_word[str(w)]),
                            !.i = @ + 1]
                /\ UNCHANGED <<pc, err>>
  /\ UNCHANGED <<FLAGS, fs, config, eval_config, raw_data, params,
                 lr, i, ep, trace, trained>>

\* generate, lines 424-426: print the sentence
GenDone ==
  /\ pc = "gen_loop"
  /\ ~sentence_in_range(gen)
  /\ trace' = Append(trace, "print sentence")
  /\ pc' = "done"
  /\ UNCHANGED <<FLAGS, fs, err, config, eval_config, raw_data,
                 params, lr, i, ep, gen, trained>>

-----------------------------------------------------------------------------
Next ==
  \/ Start
  \/ Exit
  \/ Main
  \/ LoadVocab
  \/ TrainConfig
  \/ TrainRead
  \/ TrainBuild
  \/ EpochBegin
  \/ EpochsDone
  \/ Save
  \/ RunEpochStep
  \/ RunEpochExhausted
  \/ RunEpochReturn
  \/ GenConfig
  \/ GenRestore
  \/ GenPrime
  \/ GenStep
  \/ GenDone

Spec == Init /\ [][Next]_vars

-----------------------------------------------------------------------------
(* Properties                                                              *)

RECURSIVE Sum(_)
Sum(q) == IF q = <<>> THEN 0 ELSE q[1] + Sum(Tail(q))

IsPrefix(p, q) == Len(p) <= Len(q) /\ SubSeq(q, 1, Len(p)) = p

Last(q) == q[Len(q)]

InTrain == pc \notin {"idle", "main"} /\ main_branch(FLAGS) = "train"

InGenerate == pc \notin {"idle", "main"} /\ main_branch(FLAGS) = "generate"

CkptPath == path_join(FLAGS.model_path_prefix, "ptb.ckpt")

\* the number of batches the iterator yields for the run_epoch call in progress
Batches == ptb_iterator_len(ep.data_len, ep.batch_size, ep.num_steps)

\* C1: when run_epoch reaches its return statement for data of n >= 1
\* batches, it has run one session step per batch: iters = n * num_steps and
\* the costs of n batches have been added up.
C1_EveryBatchIsRun ==
  (pc = "run_epoch_return" /\ Batches >= 1) =>
     /\ ep.iters = Batches * ep.num_steps
     /\ Len(ep.processed) = Batches

\* C2: the rate in force during the training pass of epoch k = i + 1 is
\* learning_rate for k <= max_epoch and learning_rate * lr_decay^(k - max_epoch)
\* for k > max_epoch.
C2_DecayAfterMaxEpoch ==
  (pc \in {"run_epoch_loop", "run_epoch_return"} /\ ep.caller = "train") =>
     /\ lr.learning_rate = config.learning_rate
     /\ lr.lr_decay = config.lr_decay
     /\ lr.exponent = IF i + 1 <= config.max_epoch THEN 0
                      ELSE i + 1 - config.max_epoch

RECURSIVE EpochsTrace(_)
EpochsTrace(n) ==
  IF n = 0 THEN <<>>
  ELSE EpochsTrace(n - 1) \o <<"assign_lr", "train_pass", "valid_pass", "save">>

TrainTrace(c) ==
  <<"call train", "write word_to_id.json", "write id_to_word.json">>
    \o EpochsTrace(c.max_max_epoch) \o <<"test_pass">>

\* C3: a train run performs, in this order, the two vocabulary writes, then
\* max_max_epoch times (learning-rate assignment, training pass, validation
\* pass, checkpoint save), then one test pass; a run that completes has
\* performed all of them.
C3_EpochOrder ==
  (InTrain /\ config # NoConfig) =>
     /\ IsPrefix(trace, TrainTrace(config))
     /\ pc = "done" => trace = TrainTrace(config)
     /\ pc \in {"save", "epoch_loop", "run_epoch_loop", "run_epoch_return"} =>
          Len(SelectSeq(trace, LAMBDA e : e = "save")) = i

C3_Witness ==
  /\ InTrain
  /\ pc = "done"
  /\ FLAGS.model = "small"
  /\ Len(SelectSeq(trace, LAMBDA e : e = "save")) = 13

\* C4: at run_epoch's return statement the exponent of the perplexity,
\* costs / iters, is the sum of the losses of the batches processed divided
\* by the number of positions scored in them.
C4_AverageLossPerWord ==
  (pc = "run_epoch_return" /\ ep.iters > 0) =>
     perplexity_exponent(ep.costs, ep.iters)
       = Rat(Sum(ep.processed),
             Len(ep.processed) * ep.batch_size * ep.num_steps)

C4_Witness ==
  /\ pc = "run_epoch_return"
  /\ ep.caller = "valid"
  /\ ep.batch_size = 20
  /\ ep.num_steps = 35
  /\ Sum(ep.processed) = 2
  /\ perplexity_exponent(ep.costs, ep.iters) = <<1, 350>>

\* C5: validation and test passes leave the variables as the training pass
\* left them; once an epoch has saved, the checkpoint at
\* model_path_prefix/ptb.ckpt holds exactly those variables, up to and
\* including the test pass and the end of train; generate runs on the
\* variables stored at that path.
C5_CheckpointIsTrainedParams ==
  /\ (InTrain /\ pc = "save") => params = trained
  /\ (InTrain /\ trace # <<>> /\ Last(trace) \in {"save", "test_pass"}) =>
        /\ CkptPath \in DOMAIN fs
        /\ fs[CkptPath] = trained
        /\ params = trained
  /\ (InGenerate /\ gen.active) =>
        /\ CkptPath \in DOMAIN fs
        /\ params = fs[CkptPath]

C5_Witness ==
  /\ InGenerate
  /\ pc = "done"
  /\ params.updates = 39

Has(e) == \E k \in 1..Len(trace) : trace[k] = e

VocabLoadable ==
  /\ FLAGS.model_path_prefix # None
  /\ path_join(FLAGS.model_path_prefix, "word_to_id.json") \in DOMAIN fs
  /\ path_join(FLAGS.model_path_prefix, "id_to_word.json") \in DOMAIN fs

LoadedThenGenerate ==
  /\ Len(trace) >= 3
  /\ SubSeq(trace, 1, 3) =
       <<"load word_to_id.json", "load id_to_word.json", "call generate">>

C6_RaiseBranch ==
  (pc \notin {"idle", "main"} /\ ~Truthy(FLAGS.data_path)
     /\ ~Truthy(FLAGS.generate)) =>
     /\ pc = "failed"
     /\ err = "ValueError: Must set --data_path to PTB data directory"
     /\ trace = <<>>

C6_TrainBranch ==
  (pc \notin {"idle", "main"} /\ Truthy(FLAGS.data_path)
     /\ ~Truthy(FLAGS.generate)) =>
     /\ trace # <<>>
     /\ trace[1] = "call train"
     /\ ~Has("call generate")

\* C6 as stated: the flags alone decide among raising ValueError (nothing
\* written), running train (never generate) and, when generate is set,
\* loading the two vocabulary files and running generate (never train).
C6_FlagsAloneDecide ==
  /\ C6_RaiseBranch
  /\ C6_TrainBranch
  /\ (pc \notin {"idle", "main", "load_vocab"} /\ Truthy(FLAGS.generate)) =>
        /\ LoadedThenGenerate
        /\ ~Has("call train")

\* C6 as amended: as above, except that when generate is set main runs
\* generate exactly when both vocabulary files under model_path_prefix can be
\* opened; otherwise it fails at the open, having called neither train nor
\* generate and having written nothing.
C6_FlagsAndVocabFilesDecide ==
  /\ C6_RaiseBranch
  /\ C6_TrainBranch
  /\ (pc \notin {"idle", "main", "load_vocab"} /\ Truthy(FLAGS.generate)) =>
        /\ ~Has("call train")
        /\ IF VocabLoadable
           THEN LoadedThenGenerate
           ELSE /\ pc = "failed"
                /\ err \in {"TypeError: join", "IOError: No such file"}
                /\ trace = <<>>

C6_Witness ==
  /\ pc = "done"
  /\ Truthy(FLAGS.generate)
  /\ ~Truthy(FLAGS.data_path)
  /\ Has("call generate")
  /\ Has("print sentence")

\* C7: once primed, generate never fails and never stops before 30 words;
\* the priming step feeds word 0 from the zero state, step 1 feeds <bos>,
\* step j > 1 feeds the id sampled at step j - 1, every step feeds the state
\* the preceding session step returned, and word j of the sentence is the
\* vocabulary's word for the id sampled at step j.
C7_ThirtyWordsChained ==
  (InGenerate /\ gen.active) =>
     /\ pc \in {"gen_loop", "done"}
     /\ Len(gen.sentence) <= 30
     /\ pc = "done" => Len(gen.sentence) = 30
     /\ Len(gen.sentence) = Len(gen.sampled)
     /\ Len(gen.feeds) = Len(gen.sampled) + 1
     /\ gen.feeds[1] = [input |-> 0, initial_state |-> <<>>]
     /\ \A j \in 1..Len(gen.sampled) :
          /\ gen.sentence[j] = VocabWords[gen.sampled[j] + 1]
          /\ gen.feeds[j + 1].input =
               IF j = 1 THEN BosId ELSE gen.sampled[j - 1]
          /\ gen.feeds[j + 1].initial_state =
               cell(gen.feeds[j].initial_state, gen.feeds[j].input)
     /\ gen.final_state =
          cell(Last(gen.feeds).initial_state, Last(gen.feeds).input)

C7_Witness ==
  /\ InGenerate
  /\ pc = "done"
  /\ Len(gen.sentence) = 30
  /\ gen.sampled[4] = EosId
  /\ gen.sentence[4] = "<eos>"
  /\ gen.sentence[30] = "the"

ValidModels == {"small", "medium", "large", "test"}

ConfigOf(model) ==
  CASE model = "small" -> SmallConfig
    [] model = "medium" -> MediumConfig
    [] model = "large" -> LargeConfig
    [] model = "test" -> TestConfig

\* C8: get_config yields the configuration FLAGS.model names and raises
\* ValueError for any other name; with an invalid name train fails before it
\* writes a vocabulary file, runs an epoch or saves, and generate fails
\* before it opens the checkpoint or samples a word.
C8_InvalidModelFailsFirst ==
  /\ (InTrain /\ pc # "train" /\ FLAGS.model \in ValidModels) =>
        config = ConfigOf(FLAGS.model)
  /\ (InGenerate /\ pc \notin {"load_vocab", "generate", "failed"}) =>
        /\ FLAGS.model \in ValidModels
        /\ config = [ConfigOf(FLAGS.model) EXCEPT !.num_steps = 1,
                                                  !.batch_size = 1]
  /\ (InTrain /\ pc # "train" /\ FLAGS.model \notin ValidModels) =>
        /\ pc = "failed"
        /\ err = "ValueError: Invalid model"
        /\ trace = <<"call train">>
        /\ config = NoConfig
  /\ (InGenerate /\ Has("call generate") /\ pc # "generate"
        /\ FLAGS.model \notin ValidModels) =>
        /\ pc = "failed"
        /\ err = "ValueError: Invalid model"
        /\ Last(trace) = "call generate"
        /\ ~gen.active
        /\ params = NoParams

C8_Witness ==
  /\ InGenerate
  /\ pc = "failed"
  /\ FLAGS.model = "huge"
  /\ Has("call generate")
  /\ CkptPath \in DOMAIN fs

====
